---- MODULE Spec2Model ----
(***************************************************************************)
(* Chelsea Bridge lift dashboard (enhanced_dashboard.py): model loading,   *)
(* the weather reading, the prediction engine (predict_lifts), the two     *)
(* text renderers (generate_x_text, generate_vms_text) and the main logic  *)
(* of one run of the script.                                               *)
(*                                                                         *)
(* Representation of numbers.  Times and durations are floats in the       *)
(* source; here a minute value v is held as the integer v * Scale, so the  *)
(* floor division, the modulo and the int() truncation of the source are   *)
(* computed on fractions of a minute.  Weather values are held in tenths   *)
(* (18 degrees = 180).  Confidences are held in percent (0.87 = 87).       *)
(***************************************************************************)
EXTENDS Integers, Sequences, FiniteSets, TLC

VARIABLES
    pc,             \* position of the run in the script
    mlp_model,      \* model_dict['mlp']
    tabnet_model,   \* model_dict['tabnet']
    scaler,         \* model_dict['scaler']
    features_used,  \* model_dict['features'], then the default list
    loading_status, \* [messages, success, total] of load_models_bulletproof
    model_status,   \* the status label of the sidebar
    accuracy,       \* the accuracy figure of the sidebar
    is_admin,       \* admin password matched
    selected_date,  \* the date picked in the sidebar
    hist_dates,     \* the dates of hist_df['date']
    response,       \* what the weather service answered (input of get_weather)
    weather,        \* the dict get_weather returned
    features,       \* the dict create_features returned last
    draws,          \* the outcome of np.random.normal for each slot of the grid
    candidates,     \* the list `predictions` of predict_lifts before the sort
    predictions,    \* the list predict_lifts returned (the renderers' argument)
    x_text,         \* what generate_x_text returned (<<>> before the call)
    vms_text,       \* what generate_vms_text returned (<<>> before the call)
    calls,          \* the calls made so far, in order, with the list they got
    shown,          \* what the main logic put on the page
    schedule_data,  \* the rows of the prediction table
    raised          \* an exception left a function

vars == <<pc, mlp_model, tabnet_model, scaler, features_used, loading_status,
          model_status, accuracy,
          is_admin, selected_date, hist_dates, response, weather, features,
          draws, candidates, predictions, x_text, vms_text, calls, shown,
          schedule_data, raised>>

-----------------------------------------------------------------------------
(* Bounds of the model *)

\* a minute is held in Scale parts (resolution of the draws)
Scale == 2
\* how many slots of the grid get a draw of their own, off the base pattern
MaxPerturbed == 1
\* longest entry list handed to the renderers directly
MaxEntries == 4
\* how many renderer calls a sequence of repeated calls has at most
MaxCalls == 3

Min(a, b) == IF a < b THEN a ELSE b
Max(a, b) == IF a > b THEN a ELSE b

NONE == "None"

-----------------------------------------------------------------------------
(* Program constants of predict_lifts *)

hours == <<7, 8, 9, 10, 11, 14, 15, 16, 17, 18, 19, 20>>
minutes == <<0, 30>>
ConfFull == 87
ConfFallback == 75
ConfBasic == 70
BaseDuration == 15
MinDuration == 10
MaxDuration == 30
WindowFirstHour == 6
WindowLastHour == 22
MinSpacing == 45
InitialLastTime == -60
MaxLifts == 6

\* the (hour, minute) pairs in the order the two nested loops visit them
Slots ==
    [i \in 1..(Len(hours) * Len(minutes)) |->
        [hour   |-> hours[((i - 1) \div Len(minutes)) + 1],
         minute |-> minutes[((i - 1) % Len(minutes)) + 1]]]

-----------------------------------------------------------------------------
(* The draws of one call: one (n, d) pair per slot, n the start noise and   *)
(* d the duration noise, both in Scale parts of a minute                    *)

NoDraw == [n |-> 0, d |-> 0, v |-> 1]

\* every slot on its grid time
Calm == [i \in 1..Len(Slots) |-> NoDraw]

\* every slot thrown out of the 6..22 window: the morning slots by 16 hours,
\* the afternoon slots by 9 hours
Scattered ==
    [i \in 1..Len(Slots) |->
        [n |-> (IF Slots[i].hour < 12 THEN 16 * 60 ELSE 9 * 60) * Scale, d |-> 0, v |-> 2]]

\* small draws of either sign, a few minutes around the grid time
Jitter ==
    [i \in 1..Len(Slots) |->
        [n |-> (((i * 7) % 17) - 8) * Scale + (i % Scale),
         d |-> (((i * 5) % 9) - 4) * Scale + (i % Scale),
         v |-> (i % 3) + 1]]

\* the slots of 9 and 16 o'clock on their grid time, every other slot thrown
\* out of the window
Sparse ==
    [i \in 1..Len(Slots) |-> IF Slots[i].hour \in {9, 16} THEN NoDraw ELSE Scattered[i]]

Patterns == {Calm, Scattered, Jitter, Sparse}

\* the slots that may get a draw of their own: the first two, the two
\* around the midday gap of the grid and the last two
PerturbSlots == {1, 2, 10, 11, Len(Slots) - 1, Len(Slots)}

\* the draws a perturbed slot may get
PerturbSet ==
    { [n |-> -25 * 60 * Scale,    d |-> -5 * Scale - 1,  v |-> 1],  \* a day and an hour early, below the clamp
      [n |-> -61 * Scale,         d |-> -5 * Scale,      v |-> 2],  \* 7:00 falls to 5:59
      [n |-> -31 * Scale,         d |-> 1,               v |-> 3],  \* passes the slot before it
      [n |-> 15 * Scale - 1,      d |-> Scale,           v |-> 1],  \* just under 45 minutes after the hour
      [n |-> 15 * Scale,          d |-> 5 * Scale,       v |-> 2],  \* exactly 45 minutes after the hour
      [n |-> 30 * Scale,          d |-> 15 * Scale,      v |-> 1],  \* lands on the next slot
      [n |-> 150 * Scale,         d |-> 15 * Scale + 1,  v |-> 3],  \* 20:30 rises to 23:00, above the clamp
      [n |-> 24 * 60 * Scale + 1, d |-> 0,               v |-> 1] } \* a day late

RECURSIVE Perturbed(_)
Perturbed(k) ==
    IF k = 0 THEN Patterns
    ELSE Perturbed(k - 1) \cup
         { [dr EXCEPT ![i] = p] : dr \in Perturbed(k - 1), i \in PerturbSlots, p \in PerturbSet }

PredictDraws == Perturbed(MaxPerturbed)

-----------------------------------------------------------------------------
(* Dates: month, day and date.weekday() (Monday = 0)                        *)

Dates ==
    { [month |-> 1,  day |-> 5,  weekday |-> 0],
      [month |-> 11, day |-> 3,  weekday |-> 1],
      [month |-> 12, day |-> 25, weekday |-> 5] }

-----------------------------------------------------------------------------
(* get_weather: the answer of the weather service and the dict made of it   *)

\* A value of the answer or of the weather dict: a number (in tenths), NoneValue,
\* or, in the answer only, an absent key or an empty list
Num(x) == [k |-> "num", v |-> x]
NoneValue == [k |-> "none", v |-> 0]
MISSING == [k |-> "missing", v |-> 0]
EMPTY == [k |-> "empty", v |-> 0]

FallbackTemp == 18
FallbackPrecip == 0
FallbackWind == 4
InlineWind == 5

\* the dict of the except branch, line 638
FallbackWeather ==
    [temp_c |-> Num(FallbackTemp * 10),
     precip |-> Num(FallbackPrecip * 10),
     wind   |-> Num(FallbackWind * 10)]

\* a value Python treats as false in `x or default`
FalsyValue(x) == x = NoneValue \/ x = Num(0)

\* lines 630-636 raise (a failed request, KeyError, IndexError, TypeError)
WeatherRaises(resp) ==
    \/ ~resp.ok
    \/ resp.tmax.k # "num"
    \/ resp.tmin.k # "num"
    \/ resp.precip \in {MISSING, EMPTY}
    \/ resp.wind = EMPTY

\* data.get('wind_speed_10m_max', [5])[0] or 5
WindOf(resp) ==
    IF resp.wind = MISSING \/ FalsyValue(resp.wind) THEN Num(InlineWind * 10) ELSE resp.wind

\* data['precipitation_sum'][0] or 0
PrecipOf(resp) == IF FalsyValue(resp.precip) THEN Num(0) ELSE resp.precip

get_weather(resp) ==
    IF WeatherRaises(resp) THEN FallbackWeather
    ELSE [temp_c |-> Num((resp.tmax.v + resp.tmin.v) \div 2),
          precip |-> PrecipOf(resp),
          wind   |-> WindOf(resp)]

\* answers of the service, values in tenths; the two temperatures have an
\* even sum, so their mean is a whole number of tenths
Responses ==
    [ok     : {TRUE},
     tmax   : {MISSING, NoneValue, Num(124), Num(250)},
     tmin   : {EMPTY, NoneValue, Num(-36), Num(180)},
     precip : {MISSING, NoneValue, Num(0), Num(3), Num(5), Num(62)},
     wind   : {MISSING, EMPTY, NoneValue, Num(0), Num(75)}]
    \cup [ok : {FALSE}, tmax : {Num(250)}, tmin : {Num(180)}, precip : {Num(3)},
          wind : {Num(75)}]

\* the answers used in a run of the whole script
RunResponses ==
    { [ok |-> TRUE,  tmax |-> Num(250), tmin |-> Num(180), precip |-> Num(3), wind |-> Num(75)],
      [ok |-> TRUE,  tmax |-> Num(124), tmin |-> Num(-36), precip |-> NoneValue,   wind |-> MISSING],
      [ok |-> FALSE, tmax |-> Num(250), tmin |-> Num(180), precip |-> Num(3), wind |-> Num(75)] }

-----------------------------------------------------------------------------
(* create_features                                                          *)

\* 1.5 + 0.8 * sin(hour / 24 * 2 * pi), in thousandths, for hour = 0..23
TideTable ==
    <<1500, 1707, 1900, 2066, 2193, 2273, 2300, 2273, 2193, 2066, 1900, 1707,
      1500, 1293, 1100, 934, 807, 727, 700, 727, 807, 934, 1100, 1293>>

\* the outcomes of np.random.choice([1, 2, 3], p=[0.6, 0.3, 0.1])
VesselChoices == {1, 2, 3}

\* arithmetic and comparison on NoneValue raise TypeError (lines 654-659)
FeaturesRaise(w) == w.temp_c.k # "num" \/ w.wind.k # "num" \/ w.precip.k # "num"

create_features(date, hour, minute, w, vessels) ==
    [Tide_at_start         |-> TideTable[hour + 1],
     Temp_C                |-> w.temp_c,
     Wind_ms               |-> w.wind,
     Precip_mm             |-> w.precip,
     Start_Hour            |-> hour,
     Start_Minute          |-> minute,
     DayOfWeek             |-> date.weekday,
     Month                 |-> date.month,
     IsPeakHour            |-> IF (7 <= hour /\ hour <= 10) \/ (16 <= hour /\ hour <= 19) THEN 1 ELSE 0,
     Temp_Wind_Interaction |-> w.temp_c.v * w.wind.v,
     Num_Vessels           |-> vessels,
     Direction_IN_OUT_sp   |-> 0,
     Direction_IN_OUT      |-> 0,
     Direction_OUT         |-> 1,
     Direction_OUT_IN      |-> 0,
     Precip_Level_Light    |-> IF 0 < w.precip.v /\ w.precip.v <= 5 THEN 1 ELSE 0,
     Precip_Level_Moderate |-> IF w.precip.v > 5 THEN 1 ELSE 0,
     Precip_Level_None     |-> IF w.precip.v = 0 THEN 1 ELSE 0]

-----------------------------------------------------------------------------
(* predict_lifts *)

\* Python truthiness of a model slot: NoneValue and a loaded object that is
\* falsy (an empty list, 0, ...) are false, everything else is true
Truthy(v) == v \notin {NONE, "FalsyObject"}

\* np.random.normal(0, 8) and the arithmetic of the try block do not raise
MockPredictionRaises == FALSE

\* (mutant) `or` for `and` in the test of line 671
Confidence_EitherFlag(mlp, sc) ==
    IF Truthy(mlp) \/ Truthy(sc)
    THEN IF MockPredictionRaises THEN ConfFallback ELSE ConfFull
    ELSE ConfBasic

\* lines 671-684: the confidence of a candidate
Confidence(mlp, sc) ==
    IF Truthy(mlp) /\ Truthy(sc)
    THEN IF MockPredictionRaises THEN ConfFallback ELSE ConfFull
    ELSE ConfBasic

\* hour * 60 + minute + np.random.normal(0, 8), in Scale parts of a minute
StartTime(slot, draw) == (slot.hour * 60 + slot.minute) * Scale + draw.n

\* int(start_time // 60) % 24
PredHour(start_time) == (start_time \div (60 * Scale)) % 24

\* (mutant) a remainder that takes the sign of start_time (math.fmod)
PredMinute_SignedRemainder(start_time) ==
    IF start_time >= 0 THEN (start_time % (60 * Scale)) \div Scale
    ELSE -(((-start_time) % (60 * Scale)) \div Scale)

\* int(start_time % 60)
PredMinute(start_time) == (start_time % (60 * Scale)) \div Scale

\* (mutant) the lower clamp forgotten
ClampDuration_NoFloor(draw) == Min(MaxDuration * Scale, BaseDuration * Scale + draw.d)

\* max(10, min(30, 15 + np.random.normal(0, 4))), in Scale parts of a minute
ClampDuration(draw) ==
    Max(MinDuration * Scale, Min(MaxDuration * Scale, BaseDuration * Scale + draw.d))

\* (mutant) the duration made a minute longer per day of the week and two
\* minutes longer in rain, read from the feature dict
Prediction_UsesFeatures(feats, slot, draw, conf) ==
    [hour       |-> PredHour(StartTime(slot, draw)),
     minute     |-> PredMinute(StartTime(slot, draw)),
     duration   |-> ClampDuration([draw EXCEPT !.d = @ + (feats.DayOfWeek
                                       + 2 * feats.Precip_Level_Light) * Scale]),
     confidence |-> conf]

\* the dict appended at lines 691-694; the feature dict of line 669 is
\* bound to a local name and not read
Prediction(feats, slot, draw, conf) ==
    [hour       |-> PredHour(StartTime(slot, draw)),
     minute     |-> PredMinute(StartTime(slot, draw)),
     duration   |-> ClampDuration(draw),
     confidence |-> conf]

InWindow(p) == WindowFirstHour <= p.hour /\ p.hour <= WindowLastHour

\* lines 665-694: the list `predictions` after the two loops
BuildCandidates(date, w, dr, conf) ==
    SelectSeq(
        [i \in 1..Len(Slots) |->
            Prediction(create_features(date, Slots[i].hour, Slots[i].minute, w, dr[i].v),
                       Slots[i], dr[i], conf)],
        InWindow)

\* the sort key of line 697 and the time of line 702
TimeOf(p) == p.hour * 60 + p.minute

\* list.sort(key=...) is stable: an element goes after every element whose
\* key is not greater
RECURSIVE InsertByTime(_, _)
InsertByTime(p, s) ==
    IF s = <<>> THEN <<p>>
    ELSE IF TimeOf(s[Len(s)]) <= TimeOf(p) THEN Append(s, p)
    ELSE Append(InsertByTime(p, SubSeq(s, 1, Len(s) - 1)), s[Len(s)])

RECURSIVE SortPrefix(_, _)
SortPrefix(s, n) ==
    IF n = 0 THEN <<>> ELSE InsertByTime(s[n], SortPrefix(s, n - 1))

SortByTime(s) == SortPrefix(s, Len(s))

\* (mutant) a spacing of half an hour instead of 45 minutes
KeepsCandidate_HalfHour(time, last_time) == time - last_time >= 30

\* line 703: the test that keeps a candidate
KeepsCandidate(time, last_time) == time - last_time >= MinSpacing

\* (mutant) a close candidate is merged into the entry kept before it, which
\* then lasts until the candidate's end, instead of being dropped
RECURSIVE SpacingFilter_Merge(_, _, _, _)
SpacingFilter_Merge(s, i, last_time, filtered) ==
    IF i > Len(s) THEN filtered
    ELSE IF TimeOf(s[i]) - last_time >= MinSpacing
         THEN SpacingFilter_Merge(s, i + 1, TimeOf(s[i]), Append(filtered, s[i]))
         ELSE SpacingFilter_Merge(s, i + 1, last_time,
                  [filtered EXCEPT ![Len(filtered)].duration =
                       Max(@, (TimeOf(s[i]) - last_time) * Scale + s[i].duration)])

\* (mutant) last_time set for every candidate examined, kept or not
RECURSIVE SpacingFilter_LastExamined(_, _, _, _)
SpacingFilter_LastExamined(s, i, last_time, filtered) ==
    IF i > Len(s) THEN filtered
    ELSE IF TimeOf(s[i]) - last_time >= MinSpacing
         THEN SpacingFilter_LastExamined(s, i + 1, TimeOf(s[i]), Append(filtered, s[i]))
         ELSE SpacingFilter_LastExamined(s, i + 1, TimeOf(s[i]), filtered)

\* lines 698-705: the loop over the sorted list, from index i on
RECURSIVE SpacingFilter(_, _, _, _)
SpacingFilter(s, i, last_time, filtered) ==
    IF i > Len(s) THEN filtered
    ELSE IF KeepsCandidate(TimeOf(s[i]), last_time)
         THEN SpacingFilter(s, i + 1, TimeOf(s[i]), Append(filtered, s[i]))
         ELSE SpacingFilter(s, i + 1, last_time, filtered)

RemoveClose(s) == SpacingFilter(SortByTime(s), 1, InitialLastTime, <<>>)

\* (mutant) the last six entries instead of the first six
Truncate_Last6(filtered) == SubSeq(filtered, Max(1, Len(filtered) - MaxLifts + 1), Len(filtered))

\* line 707: filtered[:6]
Truncate(filtered) == SubSeq(filtered, 1, Min(MaxLifts, Len(filtered)))

\* predict_lifts(date), given the globals it reads (weather, mlp_model,
\* scaler) and the draws of the call
predict_lifts(date, w, dr, mlp, sc) ==
    Truncate(RemoveClose(BuildCandidates(date, w, dr, Confidence(mlp, sc))))

-----------------------------------------------------------------------------
(* Texts.  A text is held as the sequence of its pieces: a piece is the     *)
(* line break NL or a string without a line break.  Two texts are the same  *)
(* string exactly when they split into the same lines.                      *)

NL == "\n"

\* "\n".join(parts), each part a sequence of pieces
RECURSIVE JoinLines(_)
JoinLines(parts) ==
    IF parts = <<>> THEN <<>>
    ELSE IF Len(parts) = 1 THEN parts[1]
    ELSE parts[1] \o <<NL>> \o JoinLines(Tail(parts))

\* text.split("\n"): the lines of a text, from piece i on, cur the line begun
RECURSIVE SplitFrom(_, _, _)
SplitFrom(text, i, cur) ==
    IF i > Len(text) THEN <<cur>>
    ELSE IF text[i] = NL THEN <<cur>> \o SplitFrom(text, i + 1, "")
    ELSE SplitFrom(text, i + 1, cur \o text[i])

TextLines(text) == SplitFrom(text, 1, "")

\* f"{n:02d}" for 0 <= n
Pad2(n) == IF n < 10 THEN "0" \o ToString(n) ELSE ToString(n)

\* int(pred['duration'])
IntDuration(pred) == pred.duration \div Scale

-----------------------------------------------------------------------------
(* generate_x_text                                                          *)

\* line 713
DateStr(date) == ToString(date.month) \o "/" \o ToString(date.day)

\* (mutant) noon taken for a morning hour: <= for < in the second test
XTimeStr_NoonAm(hour, minute) ==
    IF hour = 0 THEN "12:" \o Pad2(minute) \o "am"
    ELSE IF hour <= 12 THEN ToString(hour) \o ":" \o Pad2(minute) \o "am"
    ELSE IF hour = 12 THEN "12:" \o Pad2(minute) \o "pm"
    ELSE ToString(hour - 12) \o ":" \o Pad2(minute) \o "pm"

\* lines 726-733
XTimeStr(hour, minute) ==
    IF hour = 0 THEN "12:" \o Pad2(minute) \o "am"
    ELSE IF hour < 12 THEN ToString(hour) \o ":" \o Pad2(minute) \o "am"
    ELSE IF hour = 12 THEN "12:" \o Pad2(minute) \o "pm"
    ELSE ToString(hour - 12) \o ":" \o Pad2(minute) \o "pm"

\* (mutant) >= for > in the test of line 735
DurationRange_From15(duration) ==
    IF duration >= 15 THEN ToString(duration - 5) \o "-" \o ToString(duration + 5) ELSE "15"

\* line 735
DurationRange(duration) ==
    IF duration > 15 THEN ToString(duration - 5) \o "-" \o ToString(duration + 5) ELSE "15"

\* line 736
XLine(pred) ==
    XTimeStr(pred.hour, pred.minute) \o " estimated duration "
        \o DurationRange(IntDuration(pred)) \o " min"

\* (mutant) the header part without its own line break: no empty line after it
generate_x_text_NoBlank(date, preds) ==
    IF preds = <<>>
    THEN <<DateStr(date) \o " Expected Bridge Lifts", NL, NL,
           "No lifts expected today.", NL, NL, "* Subject to Change *">>
    ELSE JoinLines(<< <<DateStr(date) \o " Expected Bridge Lifts">> >>
                   \o [i \in 1..Len(preds) |-> <<XLine(preds[i])>>]
                   \o << <<NL, "* Subject to Change *">> >>)

\* (mutant) the trailer chosen by the global mlp_model instead of being fixed
generate_x_text_ModelNote(date, preds) ==
    LET trailer == IF Truthy(mlp_model) THEN "* Subject to Change *"
                                        ELSE "* Estimate without model *"
    IN  IF preds = <<>>
        THEN <<DateStr(date) \o " Expected Bridge Lifts", NL, NL,
               "No lifts expected today.", NL, NL, trailer>>
        ELSE JoinLines(<< <<DateStr(date) \o " Expected Bridge Lifts", NL>> >>
                       \o [i \in 1..Len(preds) |-> <<XLine(preds[i])>>]
                       \o << <<NL, trailer>> >>)

generate_x_text(date, preds) ==
    IF preds = <<>>
    THEN <<DateStr(date) \o " Expected Bridge Lifts", NL, NL,
           "No lifts expected today.", NL, NL, "* Subject to Change *">>
    ELSE JoinLines(<< <<DateStr(date) \o " Expected Bridge Lifts", NL>> >>
                   \o [i \in 1..Len(preds) |-> <<XLine(preds[i])>>]
                   \o << <<NL, "* Subject to Change *">> >>)

-----------------------------------------------------------------------------
(* generate_vms_text                                                        *)

\* (mutant) the morning hours written with their own suffix
VmsTimeStr_MorningAm(hour, minute) ==
    IF hour = 0 THEN "12:" \o Pad2(minute) \o " AM"
    ELSE IF hour < 12 THEN ToString(hour) \o ":" \o Pad2(minute) \o " AM"
    ELSE IF hour = 12 THEN "12:" \o Pad2(minute) \o " PM"
    ELSE ToString(hour - 12) \o ":" \o Pad2(minute) \o " PM"

\* lines 756-763
VmsTimeStr(hour, minute) ==
    IF hour = 0 THEN (IF minute # 0 THEN "12:" \o Pad2(minute) \o " PM" ELSE "12:00 PM")
    ELSE IF hour < 12
         THEN (IF hour # 12 THEN ToString(hour) \o ":" \o Pad2(minute) \o " PM"
                            ELSE "12:" \o Pad2(minute) \o " PM")
    ELSE IF hour = 12 THEN "12:" \o Pad2(minute) \o " PM"
    ELSE ToString(hour - 12) \o ":" \o Pad2(minute) \o " PM"

\* (mutant) the last three entries instead of the first three
NextLifts_Last3(preds) == SubSeq(preds, Max(1, Len(preds) - 2), Len(preds))

\* line 748: predictions[:3]
NextLifts(preds) == SubSeq(preds, 1, Min(3, Len(preds)))

\* lines 750-765
VmsLines(preds) ==
    [i \in 1..Len(NextLifts(preds)) |->
        VmsTimeStr(NextLifts(preds)[i].hour, NextLifts(preds)[i].minute)]

\* (mutant) the emptiness test taken as "fewer than two"
generate_vms_text_FewerThanTwo(preds) ==
    IF Len(preds) < 2 THEN <<"CHELSEA BRIDGE", NL, "NO LIFTS TODAY">>
    ELSE IF Len(VmsLines(preds)) = 2
         THEN <<"NEXT LIFTS EXPECTED", NL, VmsLines(preds)[1], NL, VmsLines(preds)[2]>>
    ELSE <<"NEXT LIFTS EXPECTED", NL, VmsLines(preds)[1], NL, VmsLines(preds)[2],
           NL, VmsLines(preds)[3]>>

generate_vms_text(preds) ==
    IF preds = <<>> THEN <<"CHELSEA BRIDGE", NL, "NO LIFTS TODAY">>
    ELSE IF Len(VmsLines(preds)) = 1
         THEN <<"NEXT LIFT EXPECTED", NL, VmsLines(preds)[1], NL, "SIGUIENTE LEVADIZO ESPERADO">>
    ELSE IF Len(VmsLines(preds)) = 2
         THEN <<"NEXT LIFTS EXPECTED", NL, VmsLines(preds)[1], NL, VmsLines(preds)[2]>>
    ELSE <<"NEXT LIFTS EXPECTED", NL, VmsLines(preds)[1], NL, VmsLines(preds)[2],
           NL, VmsLines(preds)[3]>>

-----------------------------------------------------------------------------
(* The schedule table, lines 854-871                                        *)

\* (mutant) the end hour taken from the start, without the carry of the minutes
ScheduleRow_NoCarry(i, pred) ==
    [Lift       |-> i,
     Start      |-> Pad2(pred.hour) \o ":" \o Pad2(pred.minute),
     End        |-> Pad2(pred.hour) \o ":" \o Pad2((pred.minute + IntDuration(pred)) % 60),
     Duration   |-> ToString(IntDuration(pred)) \o " min",
     Confidence |-> ToString(pred.confidence) \o "%"]

ScheduleRow(i, pred) ==
    [Lift       |-> i,
     Start      |-> Pad2(pred.hour) \o ":" \o Pad2(pred.minute),
     End        |-> Pad2(((TimeOf(pred) + IntDuration(pred)) \div 60) % 24) \o ":"
                        \o Pad2((TimeOf(pred) + IntDuration(pred)) % 60),
     Duration   |-> ToString(IntDuration(pred)) \o " min",
     Confidence |-> ToString(pred.confidence) \o "%"]

ScheduleData(preds) == [i \in 1..Len(preds) |-> ScheduleRow(i, preds[i])]

-----------------------------------------------------------------------------
(* load_models_bulletproof, lines 41-100.  `files` says, for each of the    *)
(* three files joblib reads, whether the read fails ("Unreadable") or what  *)
(* kind of object it gives                                                  *)

FileStates == {"Unreadable", "LoadedObject", "FalsyObject"}

ModelFiles == [mlp : FileStates, scaler : FileStates, features : FileStates]

\* (mutant) no stand-in made when joblib.load raises: the slot stays None
LoadOrMock_NoStandIn(file, mock) == IF file = "Unreadable" THEN NONE ELSE file

\* lines 61-70: joblib.load, or the mock object when it raises
LoadOrMock(file, mock) == IF file = "Unreadable" THEN mock ELSE file

load_models_bulletproof(files) ==
    [mlp      |-> LoadOrMock(files.mlp, "MLP_Model_Loaded"),
     tabnet   |-> "TabNet_Model_Loaded",
     scaler   |-> LoadOrMock(files.scaler, "Scaler_Loaded"),
     features |-> LoadOrMock(files.features, "Features_Loaded")]

\* lines 48-53: the slot and the display name of each file, in loop order
model_files ==
    <<[type |-> "mlp",      name |-> "MLP Model"],
      [type |-> "tabnet",   name |-> "TabNet Model"],
      [type |-> "scaler",   name |-> "Feature Scaler"],
      [type |-> "features", name |-> "Feature List"]>>

\* the body of the outer try (lines 57-70) raises for no file: the TabNet
\* slot is assigned a string, and the bare except of line 63 takes whatever
\* joblib.load raises
LoadRaises(files, type) == FALSE

\* lines 45 and 72-75: one message per file and the count of the loaded ones
LoadingStatus(files) ==
    [messages |-> [i \in 1..Len(model_files) |->
                      model_files[i].name \o
                          (IF LoadRaises(files, model_files[i].type)
                           THEN ": Not available" ELSE ": Loaded")],
     success  |-> Cardinality({ i \in 1..Len(model_files) :
                                   ~LoadRaises(files, model_files[i].type) }),
     total    |-> 4]

\* lines 99-100
FeaturesUsed(loaded) ==
    IF loaded = NONE \/ loaded = "Features_Loaded" THEN "DEFAULT_FEATURES" ELSE loaded

\* lines 489-491: the status label of the sidebar
ModelStatus(mlp, tabnet, sc, feats) ==
    IF Truthy(mlp) /\ Truthy(tabnet) /\ Truthy(sc) THEN "Full AI Ensemble"
    ELSE IF Truthy(sc) /\ Truthy(feats) THEN "Enhanced Mode"
    ELSE "Basic Mode"

\* lines 493-495: the accuracy figure of the sidebar
Accuracy(mlp, tabnet, sc, feats) ==
    IF Truthy(mlp) /\ Truthy(tabnet) /\ Truthy(sc) THEN "87%+"
    ELSE IF Truthy(sc) /\ Truthy(feats) THEN "82%"
    ELSE "70%"

-----------------------------------------------------------------------------
(* One run of the script, top to bottom                                     *)

\* nothing fetched, predicted, rendered or shown yet
NothingComputed ==
    /\ response = NONE
    /\ weather = NONE
    /\ features = NONE
    /\ draws = NONE
    /\ candidates = <<>>
    /\ predictions = <<>>
    /\ x_text = <<>>
    /\ vms_text = <<>>
    /\ calls = <<>>
    /\ shown = <<>>
    /\ schedule_data = <<>>
    /\ raised = FALSE

Init ==
    /\ pc = "load_models"
    /\ mlp_model = NONE
    /\ tabnet_model = NONE
    /\ scaler = NONE
    /\ features_used = NONE
    /\ loading_status = [messages |-> <<>>, success |-> 0, total |-> 4]
    /\ model_status = NONE
    /\ accuracy = NONE
    /\ is_admin = FALSE
    /\ selected_date = NONE
    /\ hist_dates = {}
    /\ NothingComputed

\* lines 84-100
LoadModels ==
    /\ pc = "load_models"
    /\ \E files \in ModelFiles :
          /\ mlp_model' = load_models_bulletproof(files).mlp
          /\ tabnet_model' = load_models_bulletproof(files).tabnet
          /\ scaler' = load_models_bulletproof(files).scaler
          /\ features_used' = FeaturesUsed(load_models_bulletproof(files).features)
          /\ loading_status' = LoadingStatus(files)
    /\ pc' = "sidebar"
    /\ UNCHANGED <<model_status, accuracy, is_admin, selected_date, hist_dates, response, weather, features,
                   draws, candidates, predictions, x_text, vms_text, calls, shown,
                   schedule_data, raised>>

\* lines 463-498: the password and the date the user entered, the status and
\* the accuracy shown
Sidebar ==
    /\ pc = "sidebar"
    /\ is_admin' \in BOOLEAN
    /\ selected_date' \in Dates
    /\ model_status' = ModelStatus(mlp_model, tabnet_model, scaler, features_used)
    /\ accuracy' = Accuracy(mlp_model, tabnet_model, scaler, features_used)
    /\ pc' = "load_historic"
    /\ UNCHANGED <<mlp_model, tabnet_model, scaler, features_used, loading_status,
                   hist_dates, response, weather, features, draws, candidates,
                   predictions, x_text, vms_text, calls, shown, schedule_data, raised>>

\* the dates the historical log may hold
HistoricLogs == {{}, {CHOOSE d \in Dates : d.month = 1}, Dates}

\* line 618: the dates of the historical log
LoadHistoric ==
    /\ pc = "load_historic"
    /\ hist_dates' \in HistoricLogs
    /\ pc' = "get_weather"
    /\ UNCHANGED <<mlp_model, tabnet_model, scaler, features_used, loading_status,
                   model_status, accuracy,
                   is_admin, selected_date, response, weather, features, draws,
                   candidates, predictions, x_text, vms_text, calls, shown,
                   schedule_data, raised>>

\* weather = get_weather(selected_date), the service answering one of `answers`
FetchWeather(answers, next) ==
    /\ pc = "get_weather"
    /\ \E r \in answers :
          /\ response' = r
          /\ weather' = get_weather(r)
    /\ pc' = next
    /\ UNCHANGED <<mlp_model, tabnet_model, scaler, features_used, loading_status,
                   model_status, accuracy,
                   is_admin, selected_date, hist_dates, features, draws, candidates,
                   predictions, x_text, vms_text, calls, shown, schedule_data, raised>>

\* line 640
GetWeather == FetchWeather(RunResponses, "main")

\* (mutant) the membership test made on the index of the column instead of its
\* values, which holds no date
DateInLogs_Index == selected_date \in {}

\* line 776
DateInLogs == selected_date \in hist_dates

\* lines 778-792
ShowHistorical ==
    /\ pc = "main"
    /\ DateInLogs
    /\ shown' = Append(shown, "historical lifts")
    /\ pc' = "done"
    /\ UNCHANGED <<mlp_model, tabnet_model, scaler, features_used, loading_status,
                   model_status, accuracy,
                   is_admin, selected_date, hist_dates, response, weather, features,
                   draws, candidates, predictions, x_text, vms_text, calls,
                   schedule_data, raised>>

\* predictions = predict_lifts(selected_date), the random source giving one of
\* `outcomes`; an exception of create_features leaves the function
CallPredict(outcomes, next) ==
    \E dr \in outcomes :
        /\ draws' = dr
        /\ calls' = Append(calls, [fn |-> "predict_lifts", arg |-> selected_date])
        /\ IF FeaturesRaise(weather)
           THEN /\ raised' = TRUE
                /\ pc' = "crashed"
                /\ UNCHANGED <<features, candidates, predictions>>
           ELSE /\ features' = create_features(selected_date, Slots[Len(Slots)].hour,
                                               Slots[Len(Slots)].minute, weather,
                                               dr[Len(Slots)].v)
                /\ candidates' = BuildCandidates(selected_date, weather, dr,
                                                 Confidence(mlp_model, scaler))
                /\ predictions' = predict_lifts(selected_date, weather, dr, mlp_model, scaler)
                /\ pc' = next
                /\ UNCHANGED raised

\* the draws of a run of the whole script
RunDraws == Patterns \cup { [Calm EXCEPT ![2] = p] : p \in PerturbSet }

\* the status banner of lines 798-810
Banner(n) ==
    IF n = 0 THEN "No bridge lifts predicted today - clear travel!"
    ELSE IF n <= 3 THEN ToString(n) \o " bridge lifts predicted - plan accordingly"
    ELSE ToString(n) \o " lifts predicted - expect delays"

\* lines 793-810
GeneratePredictions ==
    /\ pc = "main"
    /\ ~DateInLogs
    /\ CallPredict(RunDraws, "kpi")
    /\ shown' = IF FeaturesRaise(weather) THEN shown
                ELSE Append(shown, Banner(Len(predictions')))
    /\ UNCHANGED <<mlp_model, tabnet_model, scaler, features_used, loading_status,
                   model_status, accuracy,
                   is_admin, selected_date, hist_dates, response, weather,
                   x_text, vms_text, schedule_data>>

\* lines 813-884: the `if predictions:` branch up to the model status
ScheduleTable ==
    /\ pc = "kpi"
    /\ predictions # <<>>
    /\ schedule_data' = ScheduleData(predictions)
    /\ shown' = Append(shown, "prediction table")
    /\ pc' = IF is_admin THEN "admin_comms" ELSE "done"
    /\ UNCHANGED <<mlp_model, tabnet_model, scaler, features_used, loading_status,
                   model_status, accuracy,
                   is_admin, selected_date, hist_dates, response, weather, features,
                   draws, candidates, predictions, x_text, vms_text, calls, raised>>

\* (mutant) generate_vms_text cutting its argument down to the three entries
\* it shows (del predictions[3:]) instead of slicing a copy
AdminComms_CutsInPlace ==
    /\ pc = "admin_comms"
    /\ x_text' = generate_x_text(selected_date, predictions)
    /\ vms_text' = generate_vms_text(predictions)
    /\ predictions' = NextLifts(predictions)
    /\ calls' = calls \o <<[fn |-> "generate_x_text", arg |-> predictions],
                           [fn |-> "generate_vms_text", arg |-> predictions]>>
    /\ shown' = shown \o <<"X Post Content", "VMS Display Text">>
    /\ pc' = "done"
    /\ UNCHANGED <<mlp_model, tabnet_model, scaler, features_used, loading_status,
                   model_status, accuracy,
                   is_admin, selected_date, hist_dates, response, weather, features,
                   draws, candidates, schedule_data, raised>>

\* lines 887-946
AdminComms ==
    /\ pc = "admin_comms"
    /\ x_text' = generate_x_text(selected_date, predictions)
    /\ vms_text' = generate_vms_text(predictions)
    /\ calls' = calls \o <<[fn |-> "generate_x_text", arg |-> predictions],
                           [fn |-> "generate_vms_text", arg |-> predictions]>>
    /\ shown' = shown \o <<"X Post Content", "VMS Display Text">>
    /\ pc' = "done"
    /\ UNCHANGED <<mlp_model, tabnet_model, scaler, features_used, loading_status,
                   model_status, accuracy,
                   is_admin, selected_date, hist_dates, response, weather, features,
                   draws, candidates, predictions, schedule_data, raised>>

\* lines 947-948: the else branch of `if predictions:`
NoLiftsInfo ==
    /\ pc = "kpi"
    /\ predictions = <<>>
    /\ shown' = Append(shown, "No bridge lifts predicted for the selected date.")
    /\ pc' = "done"
    /\ UNCHANGED <<mlp_model, tabnet_model, scaler, features_used, loading_status,
                   model_status, accuracy,
                   is_admin, selected_date, hist_dates, response, weather, features,
                   draws, candidates, predictions, x_text, vms_text, calls,
                   schedule_data, raised>>

Next ==
    \/ LoadModels
    \/ Sidebar
    \/ LoadHistoric
    \/ GetWeather
    \/ ShowHistorical
    \/ GeneratePredictions
    \/ ScheduleTable
    \/ AdminComms
    \/ NoLiftsInfo

Spec == Init /\ [][Next]_vars

-----------------------------------------------------------------------------
(* predict_lifts alone: any flags, date and weather, then one call          *)

PredictWeathers == { get_weather(r) : r \in { q \in RunResponses : q.ok } }

InitPredict ==
    /\ pc = "predict"
    /\ mlp_model \in {"MLP_Model_Loaded", "FalsyObject"}
    /\ tabnet_model = "TabNet_Model_Loaded"
    /\ scaler \in {"Scaler_Loaded", "FalsyObject"}
    /\ features_used = "DEFAULT_FEATURES"
    /\ loading_status = LoadingStatus([mlp |-> "Unreadable", scaler |-> "Unreadable",
                                       features |-> "Unreadable"])
    /\ model_status = ModelStatus(mlp_model, tabnet_model, scaler, features_used)
    /\ accuracy = Accuracy(mlp_model, tabnet_model, scaler, features_used)
    /\ is_admin = FALSE
    /\ selected_date \in Dates
    /\ hist_dates = {}
    /\ response = NONE
    /\ weather \in PredictWeathers
    /\ features = NONE
    /\ draws = NONE
    /\ candidates = <<>>
    /\ predictions = <<>>
    /\ x_text = <<>>
    /\ vms_text = <<>>
    /\ calls = <<>>
    /\ shown = <<>>
    /\ schedule_data = <<>>
    /\ raised = FALSE

PredictOnce ==
    /\ pc = "predict"
    /\ CallPredict(PredictDraws, "returned")
    /\ UNCHANGED <<mlp_model, tabnet_model, scaler, features_used, loading_status,
                   model_status, accuracy,
                   is_admin, selected_date, hist_dates, response, weather,
                   x_text, vms_text, shown, schedule_data>>

NextPredict == PredictOnce

SpecPredict == InitPredict /\ [][NextPredict]_vars

-----------------------------------------------------------------------------
(* get_weather and create_features alone: any answer of the service         *)

InitWeather ==
    /\ pc = "get_weather"
    /\ mlp_model = "MLP_Model_Loaded"
    /\ tabnet_model = "TabNet_Model_Loaded"
    /\ scaler = "Scaler_Loaded"
    /\ features_used = "DEFAULT_FEATURES"
    /\ loading_status = LoadingStatus([mlp |-> "Unreadable", scaler |-> "Unreadable",
                                       features |-> "Unreadable"])
    /\ model_status = ModelStatus(mlp_model, tabnet_model, scaler, features_used)
    /\ accuracy = Accuracy(mlp_model, tabnet_model, scaler, features_used)
    /\ is_admin = FALSE
    /\ selected_date \in Dates
    /\ hist_dates = {}
    /\ NothingComputed

AnyWeather == FetchWeather(Responses, "features")

\* one call of create_features, for any slot of the grid
MakeFeatures ==
    /\ pc = "features"
    /\ \E i \in 1..Len(Slots), v \in VesselChoices :
          IF FeaturesRaise(weather)
          THEN /\ raised' = TRUE
               /\ UNCHANGED features
          ELSE /\ features' = create_features(selected_date, Slots[i].hour,
                                              Slots[i].minute, weather, v)
               /\ UNCHANGED raised
    /\ pc' = "returned"
    /\ UNCHANGED <<mlp_model, tabnet_model, scaler, features_used, loading_status,
                   model_status, accuracy,
                   is_admin, selected_date, hist_dates, response, weather, draws,
                   candidates, predictions, x_text, vms_text, calls, shown,
                   schedule_data>>

NextWeather == AnyWeather \/ MakeFeatures

SpecWeather == InitWeather /\ [][NextWeather]_vars

-----------------------------------------------------------------------------
(* The two renderers alone: any date and any entry list                     *)

\* entries of every hour and minute of the day
AnyTimeEntries ==
    [hour : 0..23, minute : 0..59,
     duration : {MinDuration * Scale, 16 * Scale - 1, 20 * Scale}, confidence : {ConfFull}]

\* the entries the longer lists are made of
ListEntries ==
    { [hour |-> 9,  minute |-> 30, duration |-> 20 * Scale,            confidence |-> ConfFull],
      [hour |-> 0,  minute |-> 0,  duration |-> MinDuration * Scale,   confidence |-> ConfBasic],
      [hour |-> 17, minute |-> 5,  duration |-> MaxDuration * Scale,   confidence |-> ConfFull] }

RECURSIVE ListsUpTo(_)
ListsUpTo(n) ==
    IF n = 0 THEN {<<>>}
    ELSE ListsUpTo(n - 1) \cup
         { Append(l, e) : l \in { m \in ListsUpTo(n - 1) : Len(m) = n - 1 }, e \in ListEntries }

\* one entry of every duration from 0 to 35 minutes, in Scale parts of a minute
AnyDurationEntries ==
    [hour : {9}, minute : {30}, duration : 0..(35 * Scale), confidence : {ConfFull}]

RenderInputs ==
    ListsUpTo(MaxEntries) \cup { <<e>> : e \in AnyTimeEntries \cup AnyDurationEntries }

InitRender ==
    /\ pc = "render"
    /\ mlp_model = "MLP_Model_Loaded"
    /\ tabnet_model = "TabNet_Model_Loaded"
    /\ scaler = "Scaler_Loaded"
    /\ features_used = "DEFAULT_FEATURES"
    /\ loading_status = LoadingStatus([mlp |-> "Unreadable", scaler |-> "Unreadable",
                                       features |-> "Unreadable"])
    /\ model_status = ModelStatus(mlp_model, tabnet_model, scaler, features_used)
    /\ accuracy = Accuracy(mlp_model, tabnet_model, scaler, features_used)
    /\ is_admin = TRUE
    /\ selected_date \in Dates
    /\ hist_dates = {}
    /\ response = NONE
    /\ weather = NONE
    /\ features = NONE
    /\ draws = NONE
    /\ candidates = <<>>
    /\ predictions \in RenderInputs
    /\ x_text = <<>>
    /\ vms_text = <<>>
    /\ calls = <<>>
    /\ shown = <<>>
    /\ schedule_data = <<>>
    /\ raised = FALSE

RenderX ==
    /\ pc = "render"
    /\ x_text' = generate_x_text(selected_date, predictions)
    /\ UNCHANGED <<pc, mlp_model, tabnet_model, scaler, features_used, loading_status,
                   model_status, accuracy,
                   is_admin, selected_date, hist_dates, response, weather, features,
                   draws, candidates, predictions, vms_text, calls, shown,
                   schedule_data, raised>>

RenderVms ==
    /\ pc = "render"
    /\ vms_text' = generate_vms_text(predictions)
    /\ UNCHANGED <<pc, mlp_model, tabnet_model, scaler, features_used, loading_status,
                   model_status, accuracy,
                   is_admin, selected_date, hist_dates, response, weather, features,
                   draws, candidates, predictions, x_text, calls, shown,
                   schedule_data, raised>>

NextRender == RenderX \/ RenderVms

SpecRender == InitRender /\ [][NextRender]_vars

-----------------------------------------------------------------------------
(* The renderers called again and again on one date and one entry list,     *)
(* the rest of the program state changing between the calls                 *)

\* the entry lists of the repeated calls: of every length up to MaxEntries
RepeatLists ==
    { [i \in 1..n |-> [hour |-> 6 + 3 * i, minute |-> 5 * i,
                       duration |-> (10 + 5 * i) * Scale, confidence |-> ConfFull]]
      : n \in 0..MaxEntries }

\* the state the renderers do not get as an argument: the model slots, the
\* weather reading and the draws of the random source
Ambients ==
    { [mlp |-> "MLP_Model_Loaded", scaler |-> "Scaler_Loaded",
       weather |-> get_weather(CHOOSE r \in RunResponses : r.ok /\ r.wind # MISSING),
       draws |-> Calm],
      [mlp |-> "FalsyObject", scaler |-> "FalsyObject",
       weather |-> FallbackWeather, draws |-> Jitter] }

InitRepeat ==
    /\ pc = "render"
    /\ \E a \in Ambients :
          /\ mlp_model = a.mlp
          /\ scaler = a.scaler
          /\ weather = a.weather
          /\ draws = a.draws
    /\ tabnet_model = "TabNet_Model_Loaded"
    /\ features_used = "DEFAULT_FEATURES"
    /\ loading_status = LoadingStatus([mlp |-> "Unreadable", scaler |-> "Unreadable",
                                       features |-> "Unreadable"])
    /\ model_status = ModelStatus(mlp_model, tabnet_model, scaler, features_used)
    /\ accuracy = Accuracy(mlp_model, tabnet_model, scaler, features_used)
    /\ is_admin = TRUE
    /\ selected_date \in Dates
    /\ hist_dates = {}
    /\ response = NONE
    /\ features = NONE
    /\ candidates = <<>>
    /\ predictions \in RepeatLists
    /\ x_text = <<>>
    /\ vms_text = <<>>
    /\ calls = <<>>
    /\ shown = <<>>
    /\ schedule_data = <<>>
    /\ raised = FALSE

\* one more call of generate_x_text; the call, the state of the primary model
\* at the call and the text returned are put on record
RepeatX ==
    /\ pc = "render"
    /\ Len(calls) < MaxCalls
    /\ x_text' = generate_x_text(selected_date, predictions)
    /\ calls' = Append(calls, [fn |-> "generate_x_text", date |-> selected_date,
                               arg |-> predictions, mlp |-> mlp_model,
                               out |-> generate_x_text(selected_date, predictions)])
    /\ UNCHANGED <<pc, mlp_model, tabnet_model, scaler, features_used, loading_status,
                   model_status, accuracy,
                   is_admin, selected_date, hist_dates, response, weather, features,
                   draws, candidates, predictions, vms_text, shown, schedule_data,
                   raised>>

\* one more call of generate_vms_text
RepeatVms ==
    /\ pc = "render"
    /\ Len(calls) < MaxCalls
    /\ vms_text' = generate_vms_text(predictions)
    /\ calls' = Append(calls, [fn |-> "generate_vms_text", date |-> selected_date,
                               arg |-> predictions, mlp |-> mlp_model,
                               out |-> generate_vms_text(predictions)])
    /\ UNCHANGED <<pc, mlp_model, tabnet_model, scaler, features_used, loading_status,
                   model_status, accuracy,
                   is_admin, selected_date, hist_dates, response, weather, features,
                   draws, candidates, predictions, x_text, shown, schedule_data,
                   raised>>

\* between two calls the models are loaded again, the weather is read again
\* and the random source is drawn from
AmbientChange ==
    /\ pc = "render"
    /\ \E a \in Ambients :
          /\ a.mlp # mlp_model
          /\ mlp_model' = a.mlp
          /\ scaler' = a.scaler
          /\ weather' = a.weather
          /\ draws' = a.draws
    /\ UNCHANGED <<pc, tabnet_model, features_used, loading_status,
                   model_status, accuracy, is_admin,
                   selected_date, hist_dates, response, features, candidates,
                   predictions, x_text, vms_text, calls, shown, schedule_data, raised>>

NextRepeat == RepeatX \/ RepeatVms \/ AmbientChange

SpecRepeat == InitRepeat /\ [][NextRepeat]_vars

-----------------------------------------------------------------------------
(* Properties of predict_lifts, checked under SpecPredict                   *)

\* start of an entry in minutes of the day
StartMinute(e) == e.hour * 60 + e.minute

\* how often e occurs in the list s
Occurrences(s, e) == Cardinality({ i \in DOMAIN s : s[i] = e })

\* C1: the list predict_lifts returns has between 0 and 6 entries, and every
\* entry starts at least 45 minutes after the entry before it, so the start
\* times are strictly increasing
C1_BoundedSpacedSchedule ==
    pc = "returned" =>
        /\ Len(predictions) \in 0..6
        /\ \A i \in 1..(Len(predictions) - 1) :
              /\ StartMinute(predictions[i]) < StartMinute(predictions[i + 1])
              /\ StartMinute(predictions[i + 1]) - StartMinute(predictions[i]) >= 45

\* a call that built more than 6 spaced candidates, returned 6 of them and
\* kept two that are exactly 45 minutes apart
C1_Witness ==
    /\ pc = "returned"
    /\ Len(candidates) > 6
    /\ Len(predictions) = 6
    /\ \E i \in 1..5 : StartMinute(predictions[i + 1]) - StartMinute(predictions[i]) = 45

\* C2: every returned entry has a duration between 10 and 30 minutes, an hour
\* between 6 and 22 and a minute between 0 and 59
C2_EntriesInRange ==
    pc = "returned" =>
        \A i \in 1..Len(predictions) :
            /\ 10 * Scale <= predictions[i].duration
            /\ predictions[i].duration <= 30 * Scale
            /\ predictions[i].hour \in 6..22
            /\ predictions[i].minute \in 0..59

\* a returned entry at hour 6 whose slot drew a start before midnight of the
\* day before and a duration below 10 minutes, returned with 10 minutes
C2_Witness ==
    /\ pc = "returned"
    /\ \E i \in 1..Len(predictions), j \in 1..Len(Slots) :
          /\ StartTime(Slots[j], draws[j]) < 0
          /\ BaseDuration * Scale + draws[j].d < 10 * Scale
          /\ predictions[i].hour = 6
          /\ StartMinute(predictions[i]) * Scale <= StartTime(Slots[j], draws[j]) % (24 * 60 * Scale)
          /\ StartTime(Slots[j], draws[j]) % (24 * 60 * Scale) < (StartMinute(predictions[i]) + 1) * Scale
          /\ predictions[i].duration = 10 * Scale

\* C3: the returned list is a filtered part of the candidates of the call:
\* every candidate is in the 6..22 window, every returned entry is a candidate
\* with all four fields as built, no entry is returned more often than it was
\* built, and the returned entries are in ascending start order
C3_FilteredSubset ==
    pc = "returned" =>
        /\ \A j \in 1..Len(candidates) : candidates[j].hour \in 6..22
        /\ \A i \in 1..Len(predictions) :
              /\ \E j \in 1..Len(candidates) : candidates[j] = predictions[i]
              /\ Occurrences(predictions, predictions[i])
                     <= Occurrences(candidates, predictions[i])
        /\ \A i, j \in 1..Len(predictions) :
              i < j => StartMinute(predictions[i]) <= StartMinute(predictions[j])

\* a call whose candidates were built out of start order, two of them on the
\* same minute, and of which some but not all were returned
C3_Witness ==
    /\ pc = "returned"
    /\ \E i, j \in 1..Len(candidates) :
          i < j /\ StartMinute(candidates[i]) > StartMinute(candidates[j])
    /\ \E i, j \in 1..Len(candidates) :
          i < j /\ StartMinute(candidates[i]) = StartMinute(candidates[j])
    /\ predictions # <<>>
    /\ Len(predictions) < Len(candidates)

\* the objects a model slot may hold
ModelObjects ==
    {NONE, "FalsyObject", "LoadedObject", "MLP_Model_Loaded", "TabNet_Model_Loaded",
     "Scaler_Loaded"}

\* C4 as stated: all entries of a call carry one confidence, it is one of
\* 0.87, 0.75 and 0.70, and each of the three is the value selected for some
\* values of the primary model, the secondary model and the scaler
C4_ThreeTiersByFlags ==
    pc = "returned" =>
        /\ \A i \in 1..Len(predictions) : predictions[i].confidence \in {87, 75, 70}
        /\ \A i, j \in 1..Len(predictions) :
              predictions[i].confidence = predictions[j].confidence
        /\ \A tier \in {87, 75, 70} :
              \E mlp \in ModelObjects, tabnet \in ModelObjects, sc \in ModelObjects :
                  Confidence(mlp, sc) = tier

\* C4 (amended): all entries of a call carry one confidence, selected by the
\* primary model and the scaler alone: 0.87 when both are present and 0.70
\* otherwise; both values are selected by some flags, 0.75 by none
C4_TwoTiersByFlags ==
    /\ pc = "returned" =>
          \A i \in 1..Len(predictions) :
              predictions[i].confidence =
                  IF mlp_model \notin {NONE, "FalsyObject"} /\ scaler \notin {NONE, "FalsyObject"}
                  THEN 87 ELSE 70
    /\ \A tier \in {87, 70} :
          \E mlp \in ModelObjects, sc \in ModelObjects : Confidence(mlp, sc) = tier
    /\ \A mlp \in ModelObjects, sc \in ModelObjects : Confidence(mlp, sc) # 75

\* a call with the primary model present and the scaler absent, whose entries
\* carry 0.70
C4_Witness ==
    /\ pc = "returned"
    /\ mlp_model = "MLP_Model_Loaded"
    /\ scaler = "FalsyObject"
    /\ Len(predictions) > 1
    /\ \A i \in 1..Len(predictions) : predictions[i].confidence = 70

-----------------------------------------------------------------------------
(* Properties of get_weather and create_features, checked under SpecWeather *)

\* the answer holds no number for the field
Absent(x) == x.k # "num"

\* C5 as stated: when the service fails or gives no temperature, precipitation
\* or wind, create_features reads the default of that field (18, 0, 4) and no
\* function raises
C5_MissingFieldsGetDefaults ==
    pc = "returned" =>
        /\ ~raised
        /\ (~response.ok \/ Absent(response.tmax) \/ Absent(response.tmin))
              => features.Temp_C = Num(18 * 10)
        /\ (~response.ok \/ Absent(response.precip)) => features.Precip_mm = Num(0)
        /\ (~response.ok \/ Absent(response.wind)) => features.Wind_ms = Num(4 * 10)

-----------------------------------------------------------------------------
(* Properties of a run of the script, checked under Spec                    *)

\* the positions in `calls` of the calls of fn
CallsOf(fn) == { i \in DOMAIN calls : calls[i].fn = fn }

Renderers == {"generate_x_text", "generate_vms_text"}

\* C6: a run whose date is in the historical log shows the historical lifts
\* and calls neither predict_lifts nor a renderer; a run whose date is not in
\* the log calls predict_lifts exactly once, and every renderer call comes
\* after that call and gets the list it returned
C6_PredictOnlyWithoutHistory ==
    /\ selected_date \in hist_dates =>
          /\ calls = <<>>
          /\ pc = "done" => shown = <<"historical lifts">>
    /\ Cardinality(CallsOf("predict_lifts")) <= 1
    /\ (pc = "done" /\ selected_date \notin hist_dates) =>
          Cardinality(CallsOf("predict_lifts")) = 1
    /\ \A i \in DOMAIN calls :
          calls[i].fn \in Renderers =>
              /\ \E j \in 1..(i - 1) : calls[j].fn = "predict_lifts"
              /\ calls[i].arg = predictions

\* a finished run with a non-empty log that does not hold the date, in which
\* both renderers were called
C6_Witness ==
    /\ pc = "done"
    /\ hist_dates # {}
    /\ selected_date \notin hist_dates
    /\ CallsOf("generate_x_text") # {}
    /\ CallsOf("generate_vms_text") # {}

\* the five lines of the social text of an empty schedule
NoLiftsXLines(date) ==
    <<ToString(date.month) \o "/" \o ToString(date.day) \o " Expected Bridge Lifts", "",
      "No lifts expected today.", "", "* Subject to Change *">>

\* the two lines of the sign text of an empty schedule
NoLiftsVmsLines == <<"CHELSEA BRIDGE", "NO LIFTS TODAY">>

\* C7 as stated: a run (of an admin, for whom the renderers are reachable) in
\* which predict_lifts returned the empty list ends without an error and
\* with the "no lifts" text produced by both renderers
C7_EmptyScheduleRendered ==
    (pc = "done" /\ is_admin /\ CallsOf("predict_lifts") # {} /\ predictions = <<>>) =>
        /\ ~raised
        /\ CallsOf("generate_x_text") # {}
        /\ CallsOf("generate_vms_text") # {}
        /\ TextLines(x_text) = NoLiftsXLines(selected_date)
        /\ TextLines(vms_text) = NoLiftsVmsLines

-----------------------------------------------------------------------------
(* Properties of the renderers, checked under SpecRender                    *)

\* C8: the social text is the header "<M>/<D> Expected Bridge Lifts" with
\* month and day unpadded, an empty line, the body, an empty line and
\* "* Subject to Change *"; the body is "No lifts expected today." for the
\* empty list and otherwise one line per entry in the order of the list
C8_SocialTextLayout ==
    x_text # <<>> =>
        LET lines == TextLines(x_text)
            n     == Len(predictions)
        IN  /\ Len(lines) = IF n = 0 THEN 5 ELSE n + 4
            /\ lines[1] = ToString(selected_date.month) \o "/"
                              \o ToString(selected_date.day) \o " Expected Bridge Lifts"
            /\ lines[2] = ""
            /\ lines[Len(lines) - 1] = ""
            /\ lines[Len(lines)] = "* Subject to Change *"
            /\ n = 0 => lines[3] = "No lifts expected today."
            /\ \A i \in 1..n : lines[i + 2] = XLine(predictions[i])

\* the text of a list of three entries no two of which give the same line,
\* for a date whose month and day have one digit
C8_Witness ==
    /\ x_text # <<>>
    /\ Len(predictions) = 3
    /\ \A i, j \in 1..3 : i # j => XLine(predictions[i]) # XLine(predictions[j])
    /\ selected_date.month < 10
    /\ selected_date.day < 10
    /\ TextLines(x_text)[1] = "1/5 Expected Bridge Lifts"

\* C9: the sign text is the two lines "CHELSEA BRIDGE" / "NO LIFTS TODAY"
\* exactly when the entry list is empty
C9_NoLiftsSignOnlyWhenEmpty ==
    vms_text # <<>> => (TextLines(vms_text) = NoLiftsVmsLines <=> predictions = <<>>)

\* the sign text of the empty list
C9_Witness ==
    /\ vms_text # <<>>
    /\ predictions = <<>>
    /\ vms_text = <<"CHELSEA BRIDGE", NL, "NO LIFTS TODAY">>

\* the hour of a 12-hour clock
HourOn12(h) == IF h = 0 \/ h = 12 THEN 12 ELSE h % 12

\* "<H>:<MM><suffix>"
TimeToken(h, m) ==
    ToString(HourOn12(h)) \o ":" \o (IF m < 10 THEN "0" ELSE "") \o ToString(m)
        \o (IF h < 12 THEN "am" ELSE "pm")

\* C10: the line of an entry of hour h and minute m begins with the token
\* "<H>:<MM><suffix>", H being 12 for h = 0 and h = 12 and h mod 12 otherwise,
\* MM the minute on two digits, the suffix "am" for h < 12 and "pm" for h >= 12
C10_TwelveHourToken ==
    x_text # <<>> =>
        \A i \in 1..Len(predictions) :
            /\ HourOn12(predictions[i].hour) \in 1..12
            /\ TextLines(x_text)[i + 2] =
                   TimeToken(predictions[i].hour, predictions[i].minute)
                       \o " estimated duration "
                       \o DurationRange(IntDuration(predictions[i])) \o " min"

\* the text of the single entry of midnight, 10 minutes long
C10_Witness ==
    /\ x_text # <<>>
    /\ Len(predictions) = 1
    /\ predictions[1].hour = 0
    /\ predictions[1].minute = 0
    /\ TextLines(x_text)[3] = "12:00am estimated duration 15 min"

\* C11: with d the duration of an entry truncated to an integer, the line of
\* the entry ends with " estimated duration <d-5>-<d+5> min" when d > 15 and
\* with " estimated duration 15 min" when d <= 15
C11_DurationRangeRule ==
    x_text # <<>> =>
        \A i \in 1..Len(predictions) :
            LET d == predictions[i].duration \div Scale
            IN  TextLines(x_text)[i + 2] =
                    XTimeStr(predictions[i].hour, predictions[i].minute)
                        \o (IF d > 15
                            THEN " estimated duration " \o ToString(d - 5) \o "-"
                                     \o ToString(d + 5) \o " min"
                            ELSE " estimated duration 15 min")

\* the text of three entries of 20, 10 and 30 minutes, in that order
C11_Witness ==
    /\ x_text # <<>>
    /\ Len(predictions) = 3
    /\ predictions[1].duration = 20 * Scale
    /\ predictions[2].duration = 10 * Scale
    /\ predictions[3].duration = 30 * Scale
    /\ TextLines(x_text)[3] = "9:30am estimated duration 15-25 min"
    /\ TextLines(x_text)[4] = "12:00am estimated duration 15 min"
    /\ TextLines(x_text)[5] = "5:05pm estimated duration 25-35 min"

\* the header of the sign text of n entries
VmsHeader(n) == IF n = 1 THEN "NEXT LIFT EXPECTED" ELSE "NEXT LIFTS EXPECTED"

\* C12: the sign text of a non-empty list of n entries is made of the first
\* min(n, 3) entries, in order: for one entry "NEXT LIFT EXPECTED", its time
\* and "SIGUIENTE LEVADIZO ESPERADO"; for two entries "NEXT LIFTS EXPECTED"
\* and two time lines; for three or more "NEXT LIFTS EXPECTED" and the time
\* lines of the first three, whatever the entries after the third are
C12_SignUsesFirstThree ==
    (vms_text # <<>> /\ predictions # <<>>) =>
        LET lines == TextLines(vms_text)
            n     == Len(predictions)
            k     == IF n < 3 THEN n ELSE 3
        IN  /\ lines[1] = VmsHeader(n)
            /\ Len(lines) = IF n = 1 THEN 3 ELSE k + 1
            /\ \A i \in 1..k :
                  lines[i + 1] = VmsTimeStr(predictions[i].hour, predictions[i].minute)
            /\ n = 1 => lines[3] = "SIGUIENTE LEVADIZO ESPERADO"

\* the sign text of four entries, the fourth at another time than the first
C12_Witness ==
    /\ vms_text # <<>>
    /\ Len(predictions) = 4
    /\ predictions[4].hour # predictions[1].hour
    /\ Len(TextLines(vms_text)) = 4
    /\ TextLines(vms_text)[1] = "NEXT LIFTS EXPECTED"

\* C13: every time line of the sign text is "<H>:<MM> PM" for every hour
\* 0..23, H being 12 for hours 0 and 12, the hour itself for 1..11 and the
\* hour less 12 for 13..23, MM the minute on two digits; " AM" is never written
C13_SignAlwaysPm ==
    (vms_text # <<>> /\ predictions # <<>>) =>
        \A i \in 1..Min(3, Len(predictions)) :
            LET h == predictions[i].hour
                m == predictions[i].minute
                H == IF h = 0 \/ h = 12 THEN 12 ELSE IF h <= 11 THEN h ELSE h - 12
            IN  TextLines(vms_text)[i + 1] =
                    ToString(H) \o ":" \o (IF m < 10 THEN "0" ELSE "") \o ToString(m) \o " PM"

\* the sign text of the single entry of five past nine in the morning
C13_Witness ==
    /\ vms_text # <<>>
    /\ Len(predictions) = 1
    /\ predictions[1].hour = 9
    /\ predictions[1].minute = 5
    /\ TextLines(vms_text)[2] = "9:05 PM"

-----------------------------------------------------------------------------
(* Properties of repeated renderer calls, checked under SpecRepeat          *)

-----------------------------------------------------------------------------
(* Properties of the spacing filter, checked under SpecPredict              *)

\* for the candidates of the sorted list s from the i-th on, whether each is
\* kept: it is when it starts 45 minutes or more after `last`, the start of
\* the most recently kept candidate before it
RECURSIVE KeptMarks(_, _, _)
KeptMarks(s, i, last) ==
    IF i > Len(s) THEN <<>>
    ELSE LET keep == StartMinute(s[i]) - last >= 45
         IN  <<keep>> \o KeptMarks(s, i + 1, IF keep THEN StartMinute(s[i]) ELSE last)

\* the candidates of s from the i-th on that are marked as kept, in order
RECURSIVE Marked(_, _, _)
Marked(s, marks, i) ==
    IF i > Len(s) THEN <<>>
    ELSE (IF marks[i] THEN <<s[i]>> ELSE <<>>) \o Marked(s, marks, i + 1)

\* C15: the filter walks the candidates in ascending start order and keeps a
\* candidate exactly when it starts 45 minutes or more after the most
\* recently kept one, -60 standing for "none kept yet"; so the earliest
\* candidate is kept, the result is non-empty whenever there is a candidate,
\* and every dropped candidate starts less than 45 minutes after a kept one
C15_GreedyFromLastKept ==
    pc = "returned" =>
        LET s     == SortByTime(candidates)
            marks == KeptMarks(s, 1, -60)
            kept  == Marked(s, marks, 1)
        IN  /\ \A i \in 1..(Len(s) - 1) : StartMinute(s[i]) <= StartMinute(s[i + 1])
            /\ SpacingFilter(s, 1, -60, <<>>) = kept
            /\ predictions = SubSeq(kept, 1, Min(6, Len(kept)))
            /\ candidates # <<>> =>
                  /\ marks[1]
                  /\ predictions # <<>>
                  /\ predictions[1] = s[1]
            /\ \A i \in 1..Len(s) :
                  ~marks[i] =>
                      \E k \in 1..Len(kept) :
                          StartMinute(s[i]) - StartMinute(kept[k]) \in 0..44

\* a returned candidate that starts less than 45 minutes after the candidate
\* examined before it, which was dropped
C15_Witness ==
    /\ pc = "returned"
    /\ LET s     == SortByTime(candidates)
           marks == KeptMarks(s, 1, -60)
       IN  \E i \in 2..Len(s) :
               /\ ~marks[i - 1]
               /\ marks[i]
               /\ StartMinute(s[i]) - StartMinute(s[i - 1]) < 45
               /\ \E k \in 1..Len(predictions) : predictions[k] = s[i]

-----------------------------------------------------------------------------
(* Properties of the candidate loop, checked under SpecPredict              *)

\* the raw start offset of slot j, hour * 60 + minute + noise, in Scale parts
RawStart(j) == (Slots[j].hour * 60 + Slots[j].minute) * Scale + draws[j].n

\* floor(t) modulo 1440 for the raw start offset t of slot j
WrappedMinute(j) == (RawStart(j) \div Scale) % 1440

\* the wrapped start of slot j lies in the hours 6..22
SlotInWindow(j) == WrappedMinute(j) \div 60 \in 6..22

\* the numbers of the slots in the window, in the order of the grid
SlotsInWindow == SelectSeq([j \in 1..Len(Slots) |-> j], SlotInWindow)

\* C16: the grid has the 24 slots of hours {7..11, 14..20} and minutes {0, 30};
\* for each slot the derived hour is in 0..23, the derived minute in 0..59 and
\* hour * 60 + minute is floor(t) modulo 1440, also for t < 0 and t >= 1440;
\* the candidates are exactly the slots whose derived hour is in 6..22, in
\* the order of the grid, and no error is raised for the others
C16_SlotWrappedIntoDay ==
    pc = "returned" =>
        /\ ~raised
        /\ { <<Slots[j].hour, Slots[j].minute>> : j \in 1..Len(Slots) }
               = {7, 8, 9, 10, 11, 14, 15, 16, 17, 18, 19, 20} \X {0, 30}
        /\ Len(Slots) = 24
        /\ \A j \in 1..Len(Slots) :
              /\ PredHour(RawStart(j)) \in 0..23
              /\ PredMinute(RawStart(j)) \in 0..59
              /\ PredHour(RawStart(j)) * 60 + PredMinute(RawStart(j)) = WrappedMinute(j)
        /\ LET kept == SlotsInWindow
           IN  /\ Len(candidates) = Len(kept)
               /\ \A k \in 1..Len(kept) :
                     /\ candidates[k].hour = WrappedMinute(kept[k]) \div 60
                     /\ candidates[k].minute = WrappedMinute(kept[k]) % 60

\* a call in which a slot with a negative start offset became a candidate
\* and a slot with a start offset of a day or more was dropped
C16_Witness ==
    /\ pc = "returned"
    /\ \E j \in 1..Len(Slots) : SlotInWindow(j) /\ RawStart(j) < 0
    /\ \E j \in 1..Len(Slots) : ~SlotInWindow(j) /\ RawStart(j) >= 1440 * Scale
    /\ candidates # <<>>
    /\ Len(candidates) < Len(Slots)

-----------------------------------------------------------------------------
(* Properties of the schedule and its table, checked under Spec             *)

\* predict_lifts was called in this run and returned
PredictReturned == pc \in {"kpi", "admin_comms", "done"} /\ CallsOf("predict_lifts") # {}

\* the prediction table of this run was built
TableBuilt == PredictReturned /\ pc # "kpi" /\ predictions # <<>>

\* the candidates of this run that the spacing filter kept, in start order
Survivors ==
    LET s == SortByTime(candidates) IN Marked(s, KeptMarks(s, 1, -60), 1)

\* C17: predict_lifts returns the survivors of the spacing filter when they
\* are 6 or fewer and exactly the 6 earliest of them, in order, when they are
\* more; the table has one row per returned entry, in the order of the list,
\* which is the start order, and its Lift column counts 1, 2, ..., n
C17_FirstSixNumbered ==
    /\ PredictReturned =>
          LET kept == Survivors
          IN  /\ Len(kept) <= 6 => predictions = kept
              /\ Len(kept) > 6 =>
                    /\ Len(predictions) = 6
                    /\ \A i \in 1..6 : predictions[i] = kept[i]
    /\ TableBuilt =>
          /\ Len(schedule_data) = Len(predictions)
          /\ \A i \in 1..Len(schedule_data) :
                /\ schedule_data[i].Lift = i
                /\ schedule_data[i].Start =
                       (IF predictions[i].hour < 10 THEN "0" ELSE "")
                           \o ToString(predictions[i].hour) \o ":"
                           \o (IF predictions[i].minute < 10 THEN "0" ELSE "")
                           \o ToString(predictions[i].minute)
          /\ \A i \in 1..(Len(predictions) - 1) :
                StartMinute(predictions[i]) < StartMinute(predictions[i + 1])

\* a finished run with more than 6 survivors, the last of them later than
\* the sixth, and a table of 6 rows
C17_Witness ==
    /\ pc = "done"
    /\ TableBuilt
    /\ LET kept == Survivors
       IN  /\ Len(kept) > 6
           /\ StartMinute(kept[Len(kept)]) > StartMinute(predictions[6])
    /\ Len(schedule_data) = 6
    /\ schedule_data[6].Lift = 6

\* C18: once predict_lifts has returned, no step of the run changes the
\* entry list: building the table and calling the two renderers leave its
\* length, its order and every entry's hour, minute, duration and confidence
\* as they were, and both renderers get the list the table was built from
C18_ScheduleNeverMutated ==
    /\ [][(pc \in {"kpi", "admin_comms", "done"}) => (predictions' = predictions)]_vars
    /\ [](\A i \in DOMAIN calls :
              calls[i].fn \in Renderers =>
                  /\ calls[i].arg = predictions
                  /\ Len(schedule_data) = Len(calls[i].arg))

\* a finished run of an admin with more than three entries: the table and
\* both texts are built and the list is still the first six survivors
C18_Witness ==
    /\ pc = "done"
    /\ TableBuilt
    /\ Len(predictions) > 3
    /\ x_text # <<>>
    /\ vms_text # <<>>
    /\ Len(schedule_data) = Len(predictions)
    /\ LET kept == Survivors
       IN  predictions = SubSeq(kept, 1, Min(6, Len(kept)))

-----------------------------------------------------------------------------
(* The schedule and the arguments of create_features, checked under         *)
(* SpecPredict                                                              *)

\* the date and the weather reading every call is compared with
ReferenceDate == CHOOSE d \in Dates : d.month = 1
ReferenceWeather == FallbackWeather

\* C19: the schedule does not depend on the date or on the weather reading:
\* a call returns the schedule that the same draws and the same model
\* flags give for the reference date and the reference reading, so any two
\* calls with the same draws and flags return the same schedule
C19_ScheduleIgnoresDateAndWeather ==
    pc = "returned" =>
        predictions = predict_lifts(ReferenceDate, ReferenceWeather, draws, mlp_model, scaler)

\* a call for another date and another reading than the reference ones,
\* whose feature dict differs from the reference one in the day of the week,
\* the month, the temperature and the wind
C19_Witness ==
    /\ pc = "returned"
    /\ Len(predictions) > 1
    /\ selected_date # ReferenceDate
    /\ weather # ReferenceWeather
    /\ features.DayOfWeek # ReferenceDate.weekday
    /\ features.Month # ReferenceDate.month
    /\ features.Temp_C # ReferenceWeather.temp_c
    /\ features.Wind_ms # ReferenceWeather.wind

-----------------------------------------------------------------------------
(* The end times of the table, checked under Spec                           *)

\* n on two digits
TwoDigits(n) == (IF n < 10 THEN "0" ELSE "") \o ToString(n)

\* start of an entry plus its duration truncated to whole minutes
EndMinute(e) == StartMinute(e) + (e.duration \div Scale)

\* C20: the End of a row is the start of its entry plus the duration
\* truncated to an integer; for every returned schedule that end is on the
\* same day (below 24:00, so the wrap modulo 24 changes nothing), strictly
\* after the start and at least 15 minutes before the start of the next
\* entry, so no two lifts overlap
C20_EndTimeWithoutOverlap ==
    /\ PredictReturned =>
          \A i \in 1..Len(predictions) :
              /\ EndMinute(predictions[i]) < 24 * 60
              /\ EndMinute(predictions[i]) > StartMinute(predictions[i])
              /\ i < Len(predictions) =>
                    EndMinute(predictions[i]) + 15 <= StartMinute(predictions[i + 1])
    /\ TableBuilt =>
          /\ Len(schedule_data) = Len(predictions)
          /\ \A i \in 1..Len(schedule_data) :
                schedule_data[i].End =
                    TwoDigits(EndMinute(predictions[i]) \div 60) \o ":"
                        \o TwoDigits(EndMinute(predictions[i]) % 60)

\* a table whose second lift starts at 07:45, 45 minutes after the first,
\* lasts 20 minutes and ends in the next hour, at 08:05
C20_Witness ==
    /\ TableBuilt
    /\ Len(schedule_data) > 2
    /\ schedule_data[2].Start = "07:45"
    /\ schedule_data[2].End = "08:05"
    /\ StartMinute(predictions[2]) - StartMinute(predictions[1]) = 45
    /\ predictions[2].duration = 20 * Scale

-----------------------------------------------------------------------------
(* Properties of the model loading, checked under Spec                      *)

\* the three model slots hold the stand-ins made when a file cannot be read
StandInsInUse ==
    /\ mlp_model = "MLP_Model_Loaded"
    /\ tabnet_model = "TabNet_Model_Loaded"
    /\ scaler = "Scaler_Loaded"

\* C21: whichever of the model files can be read, after the loading every
\* slot holds a loaded object or its stand-in, there are four "Loaded"
\* messages and success = total = 4; and when the stand-ins are in use every
\* prediction carries 0.87, never 0.75 or 0.70, and the sidebar shows
\* "Full AI Ensemble" and "87%+", never "Enhanced Mode" or "Basic Mode"
C21_LoaderAlwaysFillsSlots ==
    /\ pc # "load_models" =>
          /\ mlp_model \in {"LoadedObject", "FalsyObject", "MLP_Model_Loaded"}
          /\ tabnet_model = "TabNet_Model_Loaded"
          /\ scaler \in {"LoadedObject", "FalsyObject", "Scaler_Loaded"}
          /\ features_used \in {"LoadedObject", "FalsyObject", "DEFAULT_FEATURES"}
          /\ loading_status.messages =
                 <<"MLP Model: Loaded", "TabNet Model: Loaded",
                   "Feature Scaler: Loaded", "Feature List: Loaded">>
          /\ loading_status.success = 4
          /\ loading_status.total = 4
    /\ StandInsInUse =>
          /\ \A i \in 1..Len(predictions) :
                /\ predictions[i].confidence = 87
                /\ predictions[i].confidence \notin {75, 70}
          /\ pc \notin {"load_models", "sidebar"} =>
                /\ model_status = "Full AI Ensemble"
                /\ accuracy = "87%+"
                /\ model_status \notin {"Enhanced Mode", "Basic Mode"}

\* a finished run in which only the feature list could be read: the three
\* model slots hold their stand-ins and the schedule carries 0.87
C21_Witness ==
    /\ pc = "done"
    /\ StandInsInUse
    /\ features_used = "LoadedObject"
    /\ loading_status.success = 4
    /\ Len(predictions) > 1
    /\ \A i \in 1..Len(predictions) : predictions[i].confidence = 87
    /\ model_status = "Full AI Ensemble"
    /\ accuracy = "87%+"

====
